---- MODULE Spec2Model ----
(***************************************************************************)
(* A model of midi2json.js: the decoder of a Standard MIDI File into a     *)
(* mapping from track names to time-annotated event lists.                 *)
(*                                                                         *)
(* JavaScript values are represented as follows.                           *)
(*   - a Buffer is a sequence of bytes (0..255);                           *)
(*   - a string is the sequence of its character codes;                    *)
(*   - an integer Number is an integer, NaN is the integer NaN below and   *)
(*     null is the integer Null below (neither is a value a read yields);  *)
(*   - a fractional Number (tempo, msPerTick, timeMS) is an extended       *)
(*     rational [n, d] in lowest terms: d = 0 stands for +/-Infinity       *)
(*     (n = 1, n = -1) and for NaN (n = 0). Floating-point rounding is     *)
(*     not modelled.                                                       *)
(***************************************************************************)
EXTENDS Integers, Sequences, FiniteSets, TLC

VARIABLES
    pc,             \* position of the main script
    bytes,          \* the input file (line 17)
    byteIndex,      \* line 18
    tempo,          \* line 10
    overrideTempo,  \* line 12
    division,       \* line 13
    outputDict,     \* line 14
    runningStatus,  \* line 15
    tempTrackName,  \* line 7
    numTracks,      \* line 308
    iTrack,         \* line 322
    trackLength,    \* readTrack's local, line 82
    totalDeltaTime, \* readTrack's local, line 83
    trackData,      \* readTrack's local, line 86
    msPerTick,      \* line 332
    written,        \* the text handed to writeFileSync, line 348
    ret,            \* the value returned by the function called last
    last,           \* history: what the last iteration of readTrack's loop did
    metaLog,        \* history: the meta events decoded so far, in parse order
    stored,         \* history: the key each parsed track was stored under
    argv,           \* process.argv: its length and parseFloat of its 5th entry
    aux             \* the inputs a harness drew, and the parse context of a twin stream

vars == <<pc, bytes, byteIndex, tempo, overrideTempo, division, outputDict,
          runningStatus, tempTrackName, numTracks, iTrack, trackLength,
          totalDeltaTime, trackData, msPerTick, written, ret, last, metaLog,
          stored, argv, aux>>

----------------------------------------------------------------------------
(* JavaScript numbers *)

\* parseInt("", 16): what bufferToNumber yields for an empty Buffer
NaN == -999999

\* the initial value of runningStatus
Null == -999998

\* the largest integer of the model; a Buffer's value beyond it saturates
\* (the code only tests such values for being non-zero)
MaxInt == 2147483647

Truthy(x) == x # 0 /\ x # NaN /\ x # Null

\* ToInt32 of the operands of the bitwise operators (all values < 2^31 here)
ToInt32(x) == IF x = NaN \/ x = Null THEN 0 ELSE x

RECURSIVE BitAndNat(_, _)
BitAndNat(x, y) ==
    IF x = 0 \/ y = 0 THEN 0
    ELSE (x % 2) * (y % 2) + 2 * BitAndNat(x \div 2, y \div 2)

\* x & y (the set constructor binds each operand to its value, computed once)
BitAnd(x, y) ==
    CHOOSE r \in { BitAndNat(a, b) : a \in {ToInt32(x)}, b \in {ToInt32(y)} } : TRUE

RECURSIVE BitOrNat(_, _)
BitOrNat(x, y) ==
    IF x = 0 THEN y
    ELSE IF y = 0 THEN x
    ELSE (IF x % 2 = 1 \/ y % 2 = 1 THEN 1 ELSE 0) + 2 * BitOrNat(x \div 2, y \div 2)

\* x | y
BitOr(x, y) ==
    CHOOSE r \in { BitOrNat(a, b) : a \in {ToInt32(x)}, b \in {ToInt32(y)} } : TRUE

\* x << 7 (no value shifted here reaches 2^24, so the 32-bit wrap never acts)
Shl7(x) == ToInt32(x) * 128

RECURSIVE Gcd(_, _)
Gcd(a, b) == IF b = 0 THEN a ELSE Gcd(b, a % b)

Abs(x) == IF x < 0 THEN -x ELSE x

Sign(x) == IF x > 0 THEN 1 ELSE IF x < 0 THEN -1 ELSE 0

\* the Number n / d, d >= 0, in lowest terms
Rat(n, d) ==
    IF d = 0 THEN [n |-> Sign(n), d |-> 0]
    ELSE LET g == Gcd(Abs(n), d) IN [n |-> n \div g, d |-> d \div g]

\* an integer Number (or NaN) as a Number
Num(x) == IF x = NaN THEN Rat(0, 0) ELSE Rat(x, 1)

\* r / k for an integer k >= 0 (or NaN)
RatDiv(r, k) == IF k = NaN THEN Rat(0, 0) ELSE Rat(r.n, r.d * k)

\* t * r for an integer t >= 0
RatTimes(t, r) == Rat(t * r.n, r.d)

\* r > 0.0
RatPositive(r) == r.n > 0

----------------------------------------------------------------------------
(* Buffers and the cursor *)

Min(a, b) == IF a < b THEN a ELSE b

\* bytes.slice(idx, idx + n): clipped to the buffer
Slice(buf, idx, n) ==
    CHOOSE s \in { [i \in 1..(Min(at + n, Len(buf)) - Min(at, Len(buf))) |->
                        buf[Min(at, Len(buf)) + i]] : at \in {idx} } : TRUE

RECURSIVE BufferValue(_, _)
BufferValue(buf, acc) ==
    IF buf = <<>> THEN acc
    ELSE IF acc > (MaxInt - Head(buf)) \div 256 THEN MaxInt
    ELSE BufferValue(Tail(buf), acc * 256 + Head(buf))

bufferToNumber(buffer) == IF buffer = <<>> THEN NaN ELSE BufferValue(buffer, 0)

\* readBytes: the Buffer read and the new byteIndex
readBytes(buf, idx, numBytes) ==
    [buf |-> Slice(buf, idx, numBytes), idx |-> idx + numBytes]

\* Buffer.toString("ascii"): the high bit of every byte is dropped
toAscii(buffer) == [i \in DOMAIN buffer |-> buffer[i] % 128]

headerChunk == <<77, 84, 104, 100>>

trackChunk == <<77, 84, 114, 107>>

RECURSIVE Decimal(_)
Decimal(k) == IF k < 10 THEN <<48 + k>> ELSE Decimal(k \div 10) \o <<48 + (k % 10)>>

\* "Track " + iTrack
trackNameDefault(k) == <<84, 114, 97, 99, 107, 32>> \o Decimal(k)

----------------------------------------------------------------------------
(* readVariableLength *)

\* a mutant of ContinueReading: the cap is one byte short
ContinueReadingShort(byte, byteCount) == BitAnd(byte, 128) # 0 /\ byteCount < 2

\* the condition of the loop of line 54
ContinueReading(byte, byteCount) == BitAnd(byte, 128) # 0 /\ byteCount < 3

RECURSIVE VarLenLoop(_, _, _, _, _)
VarLenLoop(buf, idx, byte, retVal, byteCount) ==
    IF ContinueReading(byte, byteCount)
    THEN LET rd == readBytes(buf, idx, 1)
         IN VarLenLoop(buf, rd.idx, bufferToNumber(rd.buf),
                       BitOr(Shl7(retVal), BitAnd(byte, 127)), byteCount + 1)
    ELSE [val |-> BitOr(Shl7(retVal), BitAnd(byte, 127)),
          cnt |-> byteCount + 1,
          idx |-> idx]

\* [val, cnt]: the array returned; idx: byteIndex afterwards
readVariableLength(buf, idx) ==
    LET rd == readBytes(buf, idx, 1)
    IN VarLenLoop(buf, rd.idx, bufferToNumber(rd.buf), 0, 0)

----------------------------------------------------------------------------
(* The sub-decoders. Each takes the buffer and a parse context c, a record  *)
(* of the globals and of readTrack's locals, and yields the context after   *)
(* the call, with the value returned in c.ret.                              *)

NoteEvent(type, total, note, velocity) ==
    [type |-> type, time |-> total, note |-> note, velocity |-> velocity]

\* the event record pushed for the masked status, as a sequence of 0 or 1 events
EventFor(headerMasked, total, firstDataByte, second) ==
    CASE headerMasked = 128 -> <<NoteEvent("noteOff", total, firstDataByte, second)>>
      [] headerMasked = 144 -> <<NoteEvent("noteOn", total, firstDataByte, second)>>
      [] headerMasked = 160 ->
            <<[type |-> "polyAftertouch", time |-> total, note |-> firstDataByte,
               pressure |-> second]>>
      [] headerMasked = 176 ->
            <<[type |-> "CC", time |-> total, CC |-> firstDataByte, value |-> second]>>
      [] headerMasked = 192 ->
            <<[type |-> "programChange", time |-> total, program |-> firstDataByte]>>
      [] headerMasked = 208 ->
            <<[type |-> "aftertouch", time |-> total, pressure |-> firstDataByte]>>
      [] headerMasked = 224 ->
            <<[type |-> "pitchwheel", time |-> total,
               pitchwheel |-> BitOr(Shl7(second), firstDataByte)]>>
      [] OTHER -> <<>>

\* a mutant of ReadsSecondByte: program change reads a second byte, too
ReadsSecondByteProgram(headerMasked) == headerMasked \in {128, 144, 160, 176, 192, 224}

\* the statuses whose branch reads a second data byte
ReadsSecondByte(headerMasked) == headerMasked \in {128, 144, 160, 176, 224}

\* headerByte < 0x80 (false for NaN)
IsDataByte(headerByte) == headerByte # NaN /\ headerByte < 128

\* a mutant of EffectiveStatus: the substitution of line 128 is left out
EffectiveStatusHeader(c, headerByte) == headerByte

\* lines 119-129: the status the event is decoded with
EffectiveStatus(c, headerByte) ==
    IF IsDataByte(headerByte) THEN c.runningStatus ELSE headerByte

\* a mutant of DropEvent: the byte behind the data byte is consumed and counted
DropEventReadsData(c) == [c EXCEPT !.byteIndex = @ + 1, !.ret = 1]

\* lines 130-133: the context readEvent returns with when it drops the event
DropEvent(c) == [c EXCEPT !.ret = 0]

readEvent(buf, c, headerByte) ==
    IF IsDataByte(headerByte) /\ ~Truthy(c.runningStatus)
    THEN DropEvent(c)
    ELSE LET usedRunningStatus == IsDataByte(headerByte)
             status == EffectiveStatus(c, headerByte)
             headerMasked == BitAnd(status, 240)
             rd1 == readBytes(buf, c.byteIndex, 1)
             firstDataByte == IF usedRunningStatus THEN headerByte
                              ELSE bufferToNumber(rd1.buf)
             idx1 == IF usedRunningStatus THEN c.byteIndex ELSE rd1.idx
             read1 == IF usedRunningStatus THEN 0 ELSE 1
             rd2 == readBytes(buf, idx1, 1)
             two == ReadsSecondByte(headerMasked)
         IN [c EXCEPT
                !.byteIndex = IF two THEN rd2.idx ELSE idx1,
                !.trackData = @ \o EventFor(headerMasked, c.totalDeltaTime,
                                            firstDataByte, bufferToNumber(rd2.buf)),
                !.runningStatus = status,
                !.ret = read1 + (IF two THEN 1 ELSE 0)]

\* a mutant of PushesTrackEnd: the type alone decides, whatever the length
PushesTrackEndAnyLength(metaHeader, metaLength) == metaHeader = 47

\* lines 223 and 245-246: a trackEnd event is pushed
PushesTrackEnd(metaHeader, metaLength) == ~(metaLength > 0) /\ metaHeader = 47

\* a mutant of StoresName: the test of line 230 is left out
StoresNameUntested(metaHeader, metaLength, metaValue) ==
    metaLength > 0 /\ metaHeader = 3

\* lines 223 and 228-230: the payload becomes the track name
StoresName(metaHeader, metaLength, metaValue) ==
    metaLength > 0 /\ metaHeader = 3 /\ Truthy(metaValue)

\* lines 223 and 234: the payload becomes the tempo
SetsTempo(metaHeader, metaLength) == metaLength > 0 /\ metaHeader = 81

\* a mutant of MetaBytes: the type byte of line 218 is not counted
MetaBytesNoType(lengthBytes, metaLength) ==
    lengthBytes + (IF metaLength > 0 THEN metaLength ELSE 0)

\* lines 218, 221 and 226: the number of bytes readMetaEvent reports
MetaBytes(lengthBytes, metaLength) ==
    1 + lengthBytes + (IF metaLength > 0 THEN metaLength ELSE 0)

\* lines 220-253, for the type byte and the length read
MetaEventFrom(buf, c, metaHeader, metaLengthRet) ==
    LET metaLength == metaLengthRet.val
        rd2 == readBytes(buf, metaLengthRet.idx, metaLength)
        metaData == rd2.buf
        metaValue == bufferToNumber(metaData)
        entry == [type |-> metaHeader, length |-> metaLength,
                  data |-> IF metaLength > 0 THEN metaData ELSE <<>>,
                  track |-> c.iTrack, at |-> Len(c.trackData)]
    IN [c EXCEPT
           !.runningStatus = Null,
           !.metaLog = Append(@, entry),
           !.byteIndex = IF metaLength > 0 THEN rd2.idx ELSE metaLengthRet.idx,
           !.tempTrackName = IF StoresName(metaHeader, metaLength, metaValue)
                             THEN toAscii(metaData) ELSE @,
           !.tempo = IF SetsTempo(metaHeader, metaLength) THEN Num(metaValue) ELSE @,
           !.trackData = IF PushesTrackEnd(metaHeader, metaLength)
                         THEN Append(@, [type |-> "trackEnd",
                                         time |-> c.totalDeltaTime])
                         ELSE @,
           !.ret = MetaBytes(metaLengthRet.cnt, metaLength)]

\* lines 217-219 read the type byte and the length (the set constructors bind
\* each to its value, computed once)
readMetaEvent(buf, c) ==
    LET heads == { <<bufferToNumber(readBytes(buf, c.byteIndex, 1).buf), metaLengthRet>> :
                      metaLengthRet \in {readVariableLength(buf, c.byteIndex + 1)} }
    IN CHOOSE after \in { MetaEventFrom(buf, c, head[1], head[2]) : head \in heads } : TRUE

\* a mutant of ClearsRunningStatus: only the sysex start byte 0xF0 clears
ClearsRunningStatusStartOnly(headerByte) == headerByte = 240

\* a mutant of ClearsRunningStatus: every byte readSysex is called with clears
ClearsRunningStatusAlways(headerByte) == TRUE

\* line 259
ClearsRunningStatus(headerByte) == headerByte < 248

\* a mutant of SysexBytes: the bytes of the length field are not counted
SysexBytesPayload(length) == length.val

\* line 270: the number of bytes readSysex reports
SysexBytes(length) == length.val + length.cnt

readSysex(buf, c, headerByte) ==
    LET length == readVariableLength(buf, c.byteIndex)
        rd == readBytes(buf, length.idx, length.val)
    IN [c EXCEPT
           !.runningStatus = IF ClearsRunningStatus(headerByte) THEN Null ELSE @,
           !.byteIndex = rd.idx,
           !.ret = SysexBytes(length)]

----------------------------------------------------------------------------
(* readTrack, in three parts: the chunk header (lines 76-86), one iteration *)
(* of the loop (lines 88-109) and the store (lines 111-114).                *)

\* which branch of lines 98-106 the status byte takes
Dispatch(headerByte) ==
    IF headerByte = 255 THEN "meta"
    ELSE IF BitAnd(headerByte, 240) = 240 THEN "sysex"
    ELSE "event"

\* the status byte the next iteration will read
NextHeaderByte(buf, c) ==
    LET deltaTime == readVariableLength(buf, c.byteIndex)
    IN bufferToNumber(readBytes(buf, deltaTime.idx, 1).buf)

\* trackLength > 0 (false for NaN)
LoopCondition(c) == c.trackLength # NaN /\ c.trackLength > 0

\* track != trackChunk
NoTrackHeader(buf, c) == readBytes(buf, c.byteIndex, 4).buf # trackChunk

\* a mutant of NoHeaderReturn: the four bytes are looked at, not consumed
NoHeaderReturnPeek(c, idx) == c

\* lines 77-80: the context readTrack returns with when the magic is wrong
NoHeaderReturn(c, idx) == [c EXCEPT !.byteIndex = idx]

readTrackHeader(buf, c) ==
    LET rd1 == readBytes(buf, c.byteIndex, 4)
        rd2 == readBytes(buf, rd1.idx, 4)
    IN IF rd1.buf # trackChunk
       THEN NoHeaderReturn(c, rd1.idx)
       ELSE [c EXCEPT
                !.byteIndex = rd2.idx,
                !.trackLength = bufferToNumber(rd2.buf),
                !.totalDeltaTime = 0,
                !.tempTrackName = <<>>,
                !.trackData = <<>>,
                !.last = [kind |-> "begin", n |-> 0, header |-> Null, delta |-> 0,
                          start |-> rd2.idx, bytesRead |-> 0,
                          rsBefore |-> c.runningStatus, lenBefore |-> 0,
                          deltaBytes |-> 0, deltas |-> <<>>,
                          dataStart |-> rd2.idx,
                          declared |-> bufferToNumber(rd2.buf),
                          prevKind |-> "none", prevHeader |-> Null]]

\* a mutant of Accumulate: the tick is the delta time read last
AccumulateLatest(total, delta) == delta

\* line 91
Accumulate(total, delta) == total + delta

\* a mutant of BytesRead: the status byte of line 96 is not counted
BytesReadNoHeader(deltaBytes, sub) == deltaBytes + sub

\* lines 89-106: the delta-time bytes, the status byte, the sub-decoder's bytes
BytesRead(deltaBytes, sub) == deltaBytes + 1 + sub

\* lines 91-108, for the delta time and the status byte read
IterationFrom(buf, c, deltaTime, headerByte) ==
    LET c1 == [c EXCEPT !.byteIndex = deltaTime.idx + 1,
                        !.totalDeltaTime = Accumulate(@, deltaTime.val)]
        c2 == CASE Dispatch(headerByte) = "meta" -> readMetaEvent(buf, c1)
                [] Dispatch(headerByte) = "sysex" -> readSysex(buf, c1, headerByte)
                [] OTHER -> readEvent(buf, c1, headerByte)
        bytesRead == BytesRead(deltaTime.cnt, c2.ret)
    IN [c2 EXCEPT
           !.trackLength = @ - bytesRead,
           !.last = [kind |-> Dispatch(headerByte), n |-> c.last.n + 1,
                     header |-> headerByte,
                     delta |-> deltaTime.val, start |-> c.byteIndex,
                     bytesRead |-> bytesRead, rsBefore |-> c.runningStatus,
                     lenBefore |-> Len(c.trackData),
                     deltaBytes |-> deltaTime.cnt,
                     deltas |-> Append(c.last.deltas, deltaTime.val),
                     dataStart |-> c.last.dataStart,
                     declared |-> c.last.declared,
                     prevKind |-> c.last.kind, prevHeader |-> c.last.header]]

\* one iteration: lines 90-95 read the delta time and the status byte (the
\* set constructors bind each to its value, computed once)
readTrackIteration(buf, c) ==
    LET heads == { <<deltaTime, bufferToNumber(readBytes(buf, deltaTime.idx, 1).buf)>> :
                      deltaTime \in {readVariableLength(buf, c.byteIndex)} }
    IN CHOOSE after \in { IterationFrom(buf, c, head[1], head[2]) : head \in heads } : TRUE

\* the key of lines 111-113
TrackKey(c, k) == IF c.tempTrackName = <<>> THEN trackNameDefault(k) ELSE c.tempTrackName

\* "__proto__"
ProtoKey == <<95, 95, 112, 114, 111, 116, 111, 95, 95>>

\* outputDict[key] = value on the object literal of line 14. The key
\* "__proto__" is the accessor of Object.prototype: the assignment makes value
\* the prototype of outputDict and adds no property of its own. (The inherited
\* properties are the events, which have no length: the loop of lines 335-346
\* does nothing on them, and JSON.stringify writes own properties only.)
SetKey(dict, key, value) ==
    IF key = ProtoKey THEN dict
    ELSE [x \in (DOMAIN dict) \cup {key} |-> IF x = key THEN value ELSE dict[x]]

readTrackStore(c) ==
    [c EXCEPT
        !.tempTrackName = TrackKey(c, c.iTrack),
        !.outputDict = SetKey(@, TrackKey(c, c.iTrack), c.trackData),
        !.stored = Append(@, [track |-> c.iTrack, key |-> TrackKey(c, c.iTrack),
                              events |-> c.trackData])]

----------------------------------------------------------------------------
(* Input files. A file is laid out from a sequence of tokens: "MTrk" opens  *)
(* a track chunk (and "MTrX" one whose magic is wrong), every other token   *)
(* is an item of event data of the chunk opened last. The declared length   *)
(* of a chunk is the length of its items.                                   *)

MaxTokens == 5

ItemBytes(t) ==
    CASE t = "noteOn"     -> <<0, 144, 60, 64>>
      [] t = "noteOn5"    -> <<5, 145, 61, 65>>
      [] t = "data"       -> <<5, 62, 0>>
      [] t = "stray"      -> <<5, 62>>
      [] t = "program"    -> <<3, 192, 5>>
      [] t = "trackEnd"   -> <<0, 255, 47, 0>>
      [] t = "end1"       -> <<0, 255, 47, 1, 0>>
      [] t = "cue0"       -> <<2, 255, 7, 0>>
      [] t = "nameA"      -> <<0, 255, 3, 1, 65>>
      [] t = "nameB"      -> <<0, 255, 3, 2, 66, 0>>
      [] t = "nameNul"    -> <<0, 255, 3, 1, 0>>
      [] t = "nameHigh"   -> <<0, 255, 3, 1, 193>>
      [] t = "nameTrack1" -> <<0, 255, 3, 7, 84, 114, 97, 99, 107, 32, 49>>
      [] t = "tempo1"     -> <<0, 255, 81, 3, 3, 13, 64>>
      [] t = "tempo2"     -> <<1, 255, 81, 3, 3, 208, 144>>
      [] t = "tempo0"     -> <<0, 255, 81, 0>>
      [] t = "nameProto"  -> <<0, 255, 3, 9>> \o <<95, 95, 112, 114, 111, 116, 111, 95, 95>>
      [] t = "sysex"      -> <<0, 240, 1, 126>>
      [] t = "sysexF7"    -> <<0, 247, 1, 126>>
      [] t = "sysexLong"  -> <<0, 240, 5, 126>>
      [] t = "realtime"   -> <<0, 248, 0>>
      [] t = "realtimeFE" -> <<0, 254, 0>>

\* the items of the files whose chunk lengths are wrong or whose end is cut
DamagedLibrary == {"noteOn", "sysexLong", "trackEnd"}

Libraries ==
    { {"noteOn", "data", "trackEnd"},
      {"noteOn5", "data", "sysex", "realtime"},
      {"nameA", "nameNul", "nameHigh", "noteOn"},
      {"nameB", "nameTrack1", "program"},
      {"tempo1", "tempo2", "tempo0", "noteOn5"},
      {"trackEnd", "end1", "cue0"},
      {"MTrX", "noteOn", "nameA", "tempo1"},
      {"noteOn5", "sysexF7", "realtimeFE", "data"},
      {"nameProto", "noteOn", "stray"},
      DamagedLibrary }

IsTrackToken(t) == t \in {"MTrk", "MTrX"}

\* the token sequences of at most max tokens over the items of lib
TokenSeqsUpTo(lib, max) ==
    { s \in UNION { [1..n -> lib \cup {"MTrk"}] : n \in 0..max } :
        s = <<>> \/ IsTrackToken(s[1]) }

TokenSeqs(lib) == TokenSeqsUpTo(lib, MaxTokens)

\* n as b big-endian bytes
RECURSIVE BigEndian(_, _)
BigEndian(n, b) == IF b = 0 THEN <<>> ELSE BigEndian(n \div 256, b - 1) \o <<n % 256>>

\* the items that follow a track token, up to the next track token
RECURSIVE TrackBody(_)
TrackBody(ts) ==
    IF ts = <<>> \/ IsTrackToken(Head(ts)) THEN <<>>
    ELSE ItemBytes(Head(ts)) \o TrackBody(Tail(ts))

\* the chunks of the tokens; a chunk declares the length of its items + skew
RECURSIVE Chunks(_, _)
Chunks(ts, skew) ==
    IF ts = <<>> THEN <<>>
    ELSE IF IsTrackToken(Head(ts))
    THEN (IF Head(ts) = "MTrk" THEN trackChunk ELSE <<77, 84, 114, 88>>)
         \o BigEndian(IF Len(TrackBody(Tail(ts))) + skew < 0 THEN 0
                      ELSE Len(TrackBody(Tail(ts))) + skew, 4)
         \o TrackBody(Tail(ts))
         \o Chunks(Tail(ts), skew)
    ELSE Chunks(Tail(ts), skew)

TrackCount(ts) == Cardinality({i \in DOMAIN ts : IsTrackToken(ts[i])})

HeaderVariants == {"ok", "magic", "smpte", "short"}

\* the header chunk: format 1, the track count, 96 ticks per quarter note
HeaderBytes(n, variant) ==
    CASE variant = "ok"    -> headerChunk \o BigEndian(6, 4) \o <<0, 1>>
                              \o BigEndian(n, 2) \o <<0, 96>>
      [] variant = "magic" -> <<77, 84, 104, 88>> \o BigEndian(6, 4) \o <<0, 1>>
                              \o BigEndian(n, 2) \o <<0, 96>>
      [] variant = "smpte" -> headerChunk \o BigEndian(6, 4) \o <<0, 1>>
                              \o BigEndian(n, 2) \o <<231, 40>>
      [] variant = "short" -> headerChunk \o BigEndian(4, 4) \o <<0, 1>>
                              \o BigEndian(n, 2)

FileOf(ts, variant) == HeaderBytes(TrackCount(ts), variant) \o Chunks(ts, 0)

\* a chunk length one too small or two too large, a file 1 or 4 bytes short
Damages ==
    { [skew |-> -1, cut |-> 0], [skew |-> 2, cut |-> 0],
      [skew |-> 0, cut |-> 1], [skew |-> 0, cut |-> 4] }

\* the file of the tokens with its chunks damaged (the header chunk is whole)
DamagedFileOf(ts, damage) ==
    LET chunks == Chunks(ts, damage.skew)
    IN HeaderBytes(TrackCount(ts), "ok")
       \o SubSeq(chunks, 1, IF Len(chunks) < damage.cut THEN 0
                            ELSE Len(chunks) - damage.cut)

Files ==
    UNION { { FileOf(ts, "ok") : ts \in TokenSeqs(lib) } : lib \in Libraries }
    \cup { FileOf(ts, v) : ts \in TokenSeqs({"noteOn", "trackEnd"}),
                           v \in HeaderVariants }
    \cup { DamagedFileOf(ts, d) : ts \in TokenSeqs(DamagedLibrary), d \in Damages }

\* process.argv.length and parseFloat(process.argv[4])
ArgvInputs ==
    { [argc |-> 3, bpm |-> NaN], [argc |-> 4, bpm |-> NaN] }
    \cup { [argc |-> 5, bpm |-> b] : b \in {150, 0, -120, NaN} }

----------------------------------------------------------------------------
(* The main script *)

\* the parse context of the program's own variables
Context ==
    [byteIndex |-> byteIndex, runningStatus |-> runningStatus,
     tempTrackName |-> tempTrackName, tempo |-> tempo, outputDict |-> outputDict,
     trackLength |-> trackLength, totalDeltaTime |-> totalDeltaTime,
     trackData |-> trackData, ret |-> ret, last |-> last, metaLog |-> metaLog,
     stored |-> stored, iTrack |-> iTrack]

Becomes(c) ==
    /\ byteIndex' = c.byteIndex
    /\ runningStatus' = c.runningStatus
    /\ tempTrackName' = c.tempTrackName
    /\ tempo' = c.tempo
    /\ outputDict' = c.outputDict
    /\ trackLength' = c.trackLength
    /\ totalDeltaTime' = c.totalDeltaTime
    /\ trackData' = c.trackData
    /\ ret' = c.ret
    /\ last' = c.last
    /\ metaLog' = c.metaLog
    /\ stored' = c.stored

NoLast ==
    [kind |-> "none", n |-> 0, header |-> Null, delta |-> 0, start |-> 0, bytesRead |-> 0,
     rsBefore |-> Null, lenBefore |-> 0, deltaBytes |-> 0, deltas |-> <<>>,
     dataStart |-> 0, declared |-> 0, prevKind |-> "none", prevHeader |-> Null]

NoAux == [bytes |-> <<>>]

\* lines 17-18
NoBuffer ==
    /\ bytes = <<>>
    /\ byteIndex = 0

\* lines 5-15, and the locals and histories before any call
Globals ==
    /\ tempo = Rat(500000, 1)
    /\ overrideTempo = Rat(0, 1)
    /\ division = 0
    /\ outputDict = <<>>
    /\ runningStatus = Null
    /\ tempTrackName = <<>>
    /\ numTracks = 0
    /\ iTrack = 0
    /\ trackLength = 0
    /\ totalDeltaTime = 0
    /\ trackData = <<>>
    /\ msPerTick = Rat(0, 0)
    /\ written = [done |-> FALSE, text |-> <<>>]
    /\ ret = Null
    /\ last = NoLast
    /\ metaLog = <<>>
    /\ stored = <<>>

Init ==
    /\ pc = "args"
    /\ argv \in ArgvInputs
    /\ aux = NoAux
    /\ NoBuffer
    /\ Globals

\* 60000000.0 / overrideTempoBPM
OverrideFromBPM(bpm) ==
    IF bpm = NaN THEN Rat(0, 0)
    ELSE IF bpm < 0 THEN Rat(-60000000, -bpm)
    ELSE Rat(60000000, bpm)

\* lines 275-278
Usage ==
    /\ pc = "args"
    /\ argv.argc < 4 \/ argv.argc > 5
    /\ pc' = "exit"
    /\ UNCHANGED <<bytes, byteIndex, tempo, overrideTempo, division, outputDict,
                   runningStatus, tempTrackName, numTracks, iTrack, trackLength,
                   totalDeltaTime, trackData, msPerTick, written, ret, last,
                   metaLog, stored, argv, aux>>

\* lines 280-284
ParseArgs ==
    /\ pc = "args"
    /\ ~(argv.argc < 4 \/ argv.argc > 5)
    /\ overrideTempo' = IF argv.argc = 5 THEN OverrideFromBPM(argv.bpm)
                        ELSE overrideTempo
    /\ pc' = "read"
    /\ UNCHANGED <<bytes, byteIndex, tempo, division, outputDict,
                   runningStatus, tempTrackName, numTracks, iTrack, trackLength,
                   totalDeltaTime, trackData, msPerTick, written, ret, last,
                   metaLog, stored, argv, aux>>

\* line 286
ReadFile ==
    /\ pc = "read"
    /\ \E f \in Files : bytes' = f
    /\ pc' = "header"
    /\ UNCHANGED <<byteIndex, tempo, overrideTempo, division, outputDict,
                   runningStatus, tempTrackName, numTracks, iTrack, trackLength,
                   totalDeltaTime, trackData, msPerTick, written, ret, last,
                   metaLog, stored, argv, aux>>

\* lines 288-296
ReadHeaderMagic ==
    /\ pc = "header"
    /\ LET rd == readBytes(bytes, byteIndex, 4)
       IN /\ byteIndex' = rd.idx
          /\ pc' = IF rd.buf # headerChunk THEN "exit" ELSE "fields"
    /\ UNCHANGED <<bytes, tempo, overrideTempo, division, outputDict,
                   runningStatus, tempTrackName, numTracks, iTrack, trackLength,
                   totalDeltaTime, trackData, msPerTick, written, ret, last,
                   metaLog, stored, argv, aux>>

\* the number of iterations of the loop of lines 301-304
HeaderFieldCount(headerLength) ==
    IF headerLength = NaN \/ headerLength <= 0 THEN 0 ELSE (headerLength + 1) \div 2

\* headerVals[i]
HeaderVal(buf, idx, i) == readBytes(buf, idx + 2 * i, 2).buf

\* a mutant of IsSMPTE: the mask of a byte, not of the 16-bit field
IsSMPTELowByte(div) == BitAnd(div, 128) # 0

\* line 317
IsSMPTE(div) == BitAnd(div, 32768) # 0

\* lines 298-320; bufferToNumber(undefined) throws a TypeError
ReadHeaderFields ==
    /\ pc = "fields"
    /\ LET rd == readBytes(bytes, byteIndex, 4)
           count == HeaderFieldCount(bufferToNumber(rd.buf))
           div == bufferToNumber(HeaderVal(bytes, rd.idx, 2))
       IN /\ byteIndex' = rd.idx + 2 * count
          /\ IF count < 3
             THEN /\ pc' = "crash"
                  /\ UNCHANGED <<numTracks, division>>
             ELSE /\ numTracks' = bufferToNumber(HeaderVal(bytes, rd.idx, 1))
                  /\ division' = div
                  /\ pc' = IF IsSMPTE(div) THEN "exit" ELSE "tracks"
    /\ iTrack' = 0
    /\ UNCHANGED <<bytes, tempo, overrideTempo, outputDict,
                   runningStatus, tempTrackName, trackLength,
                   totalDeltaTime, trackData, msPerTick, written, ret, last,
                   metaLog, stored, argv, aux>>

\* iTrack < numTracks (false for NaN)
MoreTracks == numTracks # NaN /\ iTrack < numTracks

\* lines 322-323 and 76-80: readTrack returns at once
SkipTrack ==
    /\ pc = "tracks"
    /\ MoreTracks
    /\ NoTrackHeader(bytes, Context)
    /\ Becomes(readTrackHeader(bytes, Context))
    /\ iTrack' = iTrack + 1
    /\ UNCHANGED <<pc, bytes, overrideTempo, division, numTracks, msPerTick,
                   written, argv, aux>>

\* lines 322-323 and 76-86
BeginTrack ==
    /\ pc = "tracks"
    /\ MoreTracks
    /\ ~NoTrackHeader(bytes, Context)
    /\ Becomes(readTrackHeader(bytes, Context))
    /\ pc' = "loop"
    /\ UNCHANGED <<bytes, overrideTempo, division, numTracks, iTrack, msPerTick,
                   written, argv, aux>>

\* one iteration of lines 88-109
Iteration ==
    /\ pc = "loop"
    /\ LoopCondition(Context)
    /\ \E after \in {readTrackIteration(bytes, Context)} : Becomes(after)
    /\ UNCHANGED <<pc, bytes, overrideTempo, division, numTracks, iTrack,
                   msPerTick, written, argv, aux>>

\* the iteration takes the branch of line 98
MetaIteration ==
    /\ pc = "loop"
    /\ \E headerByte \in {NextHeaderByte(bytes, Context)} : Dispatch(headerByte) = "meta"
    /\ Iteration

\* the iteration takes the branch of line 101
SysexIteration ==
    /\ pc = "loop"
    /\ \E headerByte \in {NextHeaderByte(bytes, Context)} : Dispatch(headerByte) = "sysex"
    /\ Iteration

\* the iteration takes the branch of line 104
EventIteration ==
    /\ pc = "loop"
    /\ \E headerByte \in {NextHeaderByte(bytes, Context)} : Dispatch(headerByte) = "event"
    /\ Iteration

\* lines 111-114, and the loop of line 322 steps on
EndTrack ==
    /\ pc = "loop"
    /\ ~LoopCondition(Context)
    /\ Becomes(readTrackStore(Context))
    /\ iTrack' = iTrack + 1
    /\ pc' = "tracks"
    /\ UNCHANGED <<bytes, overrideTempo, division, numTracks, msPerTick,
                   written, argv, aux>>

\* a mutant of EffectiveTempo: an embedded tempo wins over the override
EffectiveTempoEmbeddedFirst(override, embedded) ==
    IF embedded # Rat(500000, 1) THEN embedded
    ELSE IF RatPositive(override) THEN override ELSE embedded

\* the tempo of lines 329-331
EffectiveTempo(override, embedded) ==
    IF RatPositive(override) THEN override ELSE embedded

\* line 332
MsPerTick(t, div) == RatDiv(RatDiv(t, div), 1000)

\* lines 326-332
ResolveTempo ==
    /\ pc = "tracks"
    /\ ~MoreTracks
    /\ tempo' = EffectiveTempo(overrideTempo, tempo)
    /\ msPerTick' = MsPerTick(tempo', division)
    /\ pc' = "annotate"
    /\ UNCHANGED <<bytes, byteIndex, overrideTempo, division, outputDict,
                   runningStatus, tempTrackName, numTracks, iTrack, trackLength,
                   totalDeltaTime, trackData, written, ret, last,
                   metaLog, stored, argv, aux>>

\* a mutant of AnnotateEvent: "if (time)" for "if (time !== null)"
AnnotateEventTruthy(event, factor) ==
    IF Truthy(event.time)
    THEN [timeMS |-> RatTimes(event.time, factor)] @@ event
    ELSE event

\* lines 338-344
AnnotateEvent(event, factor) ==
    IF event.time # Null
    THEN [timeMS |-> RatTimes(event.time, factor)] @@ event
    ELSE event

\* lines 335-346
AnnotateAll(dict, factor) ==
    [track \in DOMAIN dict |->
        [i \in DOMAIN dict[track] |-> AnnotateEvent(dict[track][i], factor)]]

Annotate ==
    /\ pc = "annotate"
    /\ outputDict' = AnnotateAll(outputDict, msPerTick)
    /\ pc' = "write"
    /\ UNCHANGED <<bytes, byteIndex, tempo, overrideTempo, division,
                   runningStatus, tempTrackName, numTracks, iTrack, trackLength,
                   totalDeltaTime, trackData, msPerTick, written, ret, last,
                   metaLog, stored, argv, aux>>

\* JSON.stringify of a field: NaN and the infinities are written as null
JsonField(name, value) ==
    IF name = "type" THEN value
    ELSE IF name = "timeMS" THEN (IF value.d = 0 THEN Null ELSE value)
    ELSE IF value = NaN THEN Null ELSE value

JsonStringify(dict) ==
    [track \in DOMAIN dict |->
        [i \in DOMAIN dict[track] |->
            [f \in DOMAIN dict[track][i] |-> JsonField(f, dict[track][i][f])]]]

\* line 348
WriteOutput ==
    /\ pc = "write"
    /\ written' = [done |-> TRUE, text |-> JsonStringify(outputDict)]
    /\ pc' = "done"
    /\ UNCHANGED <<bytes, byteIndex, tempo, overrideTempo, division, outputDict,
                   runningStatus, tempTrackName, numTracks, iTrack, trackLength,
                   totalDeltaTime, trackData, msPerTick, ret, last,
                   metaLog, stored, argv, aux>>

Next ==
    \/ Usage
    \/ ParseArgs
    \/ ReadFile
    \/ ReadHeaderMagic
    \/ ReadHeaderFields
    \/ SkipTrack
    \/ BeginTrack
    \/ MetaIteration
    \/ SysexIteration
    \/ EventIteration
    \/ EndTrack
    \/ ResolveTempo
    \/ Annotate
    \/ WriteOutput

Spec == Init /\ [][Next]_vars

----------------------------------------------------------------------------
(* Properties of the whole run (specification Spec) *)

\* the tracks are all parsed and the tempo of lines 329-331 is resolved
TempoResolved == pc \in {"annotate", "write", "done"}

Last(seq) == seq[Len(seq)]

\* the tempo the tempo meta events es leave behind: the payload of the last
\* one as a big-endian integer, 500000 when there is none
PayloadTempo(es) ==
    IF es = <<>> THEN Rat(500000, 1) ELSE Num(bufferToNumber(Last(es).data))

TempoMetas == SelectSeq(metaLog, LAMBDA e : e.type = 81)

TempoMetasWithPayload == SelectSeq(metaLog, LAMBDA e : e.type = 81 /\ e.length > 0)

\* C4 as stated: whenever an override was supplied the effective tempo is
\* 60,000,000 / BPM, otherwise it is the payload of the last tempo meta event
\* of the file, or 500000 when there is none.
C4_OverrideWheneverSupplied ==
    TempoResolved =>
        tempo = IF argv.argc = 5 THEN OverrideFromBPM(argv.bpm)
                ELSE PayloadTempo(TempoMetas)

\* C4, amended: the effective tempo is 60,000,000 / BPM when an override was
\* supplied and that quotient is greater than 0 (BPM is a number >= 0),
\* whatever tempo meta events the file holds; otherwise it is the payload of
\* the last tempo meta event with a length > 0, or 500000 when there is none.
C4_EffectiveTempo ==
    TempoResolved =>
        tempo = IF argv.argc = 5 /\ argv.bpm # NaN /\ argv.bpm >= 0
                THEN Rat(60000000, argv.bpm)
                ELSE PayloadTempo(TempoMetasWithPayload)

\* an override of 150 BPM wins over an embedded tempo
C4_Witness ==
    /\ pc = "done"
    /\ argv.argc = 5 /\ argv.bpm = 150
    /\ TempoMetasWithPayload # <<>>
    /\ PayloadTempo(TempoMetasWithPayload) # Rat(400000, 1)
    /\ tempo = Rat(400000, 1)

\* (effectiveTempo / division) / 1000, from the values the run ended with
ExpectedMsPerTick ==
    IF division = NaN THEN Rat(0, 0) ELSE Rat(tempo.n, tempo.d * division * 1000)

\* C5: when the run completes every event of every track of the output
\* mapping carries timeMS = time x msPerTick, for the one factor
\* (effectiveTempo / division) / 1000.
C5_GlobalTimeScaling ==
    pc = "done" =>
        \A k \in DOMAIN outputDict : \A i \in DOMAIN outputDict[k] :
            LET e == outputDict[k][i]
            IN /\ "timeMS" \in DOMAIN e
               /\ e.timeMS = Rat(e.time * ExpectedMsPerTick.n, ExpectedMsPerTick.d)

\* the last tempo meta event stands in track 1 behind an event of that track,
\* and track 0, parsed before it, holds an event at a tick > 0
C5_Witness ==
    /\ pc = "done"
    /\ argv.argc = 4
    /\ metaLog # <<>>
    /\ Last(metaLog).type = 81 /\ Last(metaLog).length > 0
    /\ Last(metaLog).track = 1 /\ Last(metaLog).at > 0
    /\ tempo = Rat(200000, 1)
    /\ \E s \in DOMAIN stored :
          /\ stored[s].track = 0
          /\ outputDict[stored[s].key] # <<>>
          /\ outputDict[stored[s].key][1].time = 5
          /\ outputDict[stored[s].key][1].timeMS = Rat(125, 12)

\* C6: a meta event appends an event iff its type is 0x2F and its length 0,
\* and then exactly one trackEnd at the accumulated tick; a chunk that holds
\* only a delta time and FF 2F 00 yields exactly that one event.
C6_EndOfTrackEmission ==
    (pc = "loop" /\ last.kind = "meta") =>
        LET e == Last(metaLog)
            added == SubSeq(trackData, last.lenBefore + 1, Len(trackData))
            trackEnd == [type |-> "trackEnd", time |-> totalDeltaTime]
        IN /\ Len(trackData) >= last.lenBefore
           /\ added = IF e.type = 47 /\ e.length = 0 THEN <<trackEnd>> ELSE <<>>
           /\ (last.n = 1 /\ e.type = 47 /\ e.length = 0 /\ trackLength = 0)
                 => trackData = <<[type |-> "trackEnd", time |-> last.delta]>>

\* the chunk's only iteration decoded FF 2F 00
C6_Witness ==
    /\ pc = "loop" /\ last.kind = "meta" /\ last.n = 1 /\ trackLength = 0
    /\ Last(metaLog).type = 47 /\ Last(metaLog).length = 0
    /\ trackData = <<[type |-> "trackEnd", time |-> 0]>>

\* the file is read
FileLoaded == pc \notin {"args", "read"}

BadMagic == Slice(bytes, 0, 4) # headerChunk

\* the division field of a 6-byte header has bit 15 set
SMPTEHeader ==
    /\ ~BadMagic
    /\ Slice(bytes, 4, 4) = <<0, 0, 0, 6>>
    /\ Len(bytes) >= 14 /\ bytes[13] >= 128

NothingParsed ==
    /\ outputDict = <<>> /\ trackData = <<>> /\ stored = <<>> /\ metaLog = <<>>
    /\ last = NoLast /\ runningStatus = Null /\ iTrack = 0 /\ ~written.done

\* C7: with a wrong header magic or an SMPTE division the run ends in the
\* fatal exit before any track is parsed: no readTrack, no event, no output.
C7_FatalHeaderErrors ==
    FileLoaded =>
        /\ (BadMagic \/ SMPTEHeader) => (NothingParsed /\ pc \in {"header", "fields", "exit"})
        /\ (BadMagic /\ pc # "header") => pc = "exit"
        /\ (SMPTEHeader /\ pc \notin {"header", "fields"}) => pc = "exit"

C7_Witness == pc = "exit" /\ SMPTEHeader /\ Len(bytes) > 14

\* C8: readTrack on four bytes that are not "MTrk" consumes exactly those
\* bytes, leaves the output mapping, running status and tempo as they were,
\* and the loop goes on with the next track index.
C8_MissingTrackMagic ==
    [][ (pc = "tracks" /\ MoreTracks /\ Slice(bytes, byteIndex, 4) # trackChunk)
          => /\ pc' = "tracks"
             /\ iTrack' = iTrack + 1
             /\ numTracks' = numTracks
             /\ byteIndex' = byteIndex + 4
             /\ outputDict' = outputDict
             /\ stored' = stored
             /\ runningStatus' = runningStatus
             /\ tempo' = tempo ]_vars

\* tracks 0 and 1 were skipped and track 2 was parsed after them
C8_Witness ==
    /\ pc = "done"
    /\ Len(stored) = 1 /\ stored[1].track = 2
    /\ DOMAIN outputDict = {trackNameDefault(2)}

NameMetas(k) ==
    SelectSeq(metaLog, LAMBDA e : e.track = k /\ e.type = 3 /\ e.length > 0)

NonZero(data) == \E j \in DOMAIN data : data[j] # 0

NameMetasNonZero(k) ==
    SelectSeq(metaLog, LAMBDA e : e.track = k /\ e.type = 3 /\ e.length > 0
                                  /\ NonZero(e.data))

\* C9 as stated: a track is stored under the payload of its last track-name
\* meta event of length > 0, and under "Track " + index when it has none.
C9_KeyIsLastNamePayload ==
    \A i \in DOMAIN stored :
        LET names == NameMetas(stored[i].track)
        IN stored[i].key = IF names # <<>> THEN Last(names).data
                           ELSE trackNameDefault(stored[i].track)

\* C9, amended: a track is stored under the ASCII text (the low 7 bits of each
\* byte) of the payload of its last track-name meta event whose payload has a
\* byte other than 0, and under "Track " + index when it has no such event.
C9_TrackNaming ==
    \A i \in DOMAIN stored :
        LET names == NameMetasNonZero(stored[i].track)
            payload == Last(names).data
        IN /\ stored[i].key # ProtoKey => stored[i].key \in DOMAIN outputDict
           /\ stored[i].key = IF names # <<>>
                              THEN [j \in DOMAIN payload |-> payload[j] % 128]
                              ELSE trackNameDefault(stored[i].track)

\* a track whose last name payload is a NUL byte keeps the name set before it,
\* and the next track, which has no name event, gets its default name
C9_Witness ==
    /\ Len(stored) = 2
    /\ NameMetas(0) # <<>> /\ Last(NameMetas(0)).data = <<0>>
    /\ stored[1].key = <<65>>
    /\ NameMetas(1) = <<>>
    /\ stored[2].key = trackNameDefault(1)

\* C10 as stated: when the parse of a track starts running status is empty,
\* so a data byte in status position in the first iteration appends nothing.
C10_RunningStatusResetPerTrack ==
    /\ (pc = "loop" /\ last.kind = "begin") => runningStatus = Null
    /\ (pc = "loop" /\ last.n = 1 /\ last.kind = "event" /\ IsDataByte(last.header))
          => trackData = <<>>

\* the loop is at its head, and the iteration to come reads a byte < 0x80 in
\* status position while running status is empty
DropsNext ==
    /\ pc = "loop" /\ LoopCondition(Context)
    /\ IsDataByte(NextHeaderByte(bytes, Context))
    /\ ~Truthy(runningStatus)

\* C11: a byte < 0x80 in status position with running status empty appends no
\* event, leaves running status as it is, reads no byte behind the status
\* position and readEvent returns 0; the events decoded before are kept and
\* the loop of the track goes on.
C11_MissingRunningStatusDrops ==
    [][ DropsNext =>
          /\ trackData' = trackData
          /\ outputDict' = outputDict
          /\ runningStatus' = runningStatus
          /\ byteIndex' = readVariableLength(bytes, byteIndex).idx + 1
          /\ ret' = 0
          /\ trackLength' = trackLength - (readVariableLength(bytes, byteIndex).cnt + 1)
          /\ pc' = "loop" ]_vars

\* a data byte behind an end-of-track event was dropped, the two events
\* decoded before it are kept, and the loop has an iteration to go
C11_Witness ==
    /\ pc = "loop" /\ LoopCondition(Context)
    /\ last.kind = "event" /\ IsDataByte(last.header) /\ last.rsBefore = Null
    /\ last.prevKind = "meta"
    /\ ret = 0 /\ runningStatus = Null
    /\ Len(trackData) = 2 /\ last.lenBefore = 2
    /\ byteIndex = last.start + last.deltaBytes + 1

MaxLiveTokens == 4

\* the files of the runs checked for termination: the damaged files, and
\* files with chunks whose magic is wrong and bytes that are dropped
LiveFiles ==
    { DamagedFileOf(ts, d) : ts \in TokenSeqsUpTo(DamagedLibrary, MaxLiveTokens),
                             d \in Damages }
    \cup { FileOf(ts, "ok") :
               ts \in TokenSeqsUpTo({"MTrX", "data", "program"}, MaxLiveTokens) }

InitLive ==
    /\ pc = "args"
    /\ argv \in { [argc |-> 3, bpm |-> NaN], [argc |-> 4, bpm |-> NaN] }
    /\ aux = NoAux
    /\ NoBuffer
    /\ Globals

\* line 286, on one of the files above
ReadLiveFile ==
    /\ pc = "read"
    /\ \E f \in LiveFiles : bytes' = f
    /\ pc' = "header"
    /\ UNCHANGED <<byteIndex, tempo, overrideTempo, division, outputDict,
                   runningStatus, tempTrackName, numTracks, iTrack, trackLength,
                   totalDeltaTime, trackData, msPerTick, written, ret, last,
                   metaLog, stored, argv, aux>>

NextLive ==
    \/ Usage
    \/ ParseArgs
    \/ ReadLiveFile
    \/ ReadHeaderMagic
    \/ ReadHeaderFields
    \/ SkipTrack
    \/ BeginTrack
    \/ MetaIteration
    \/ SysexIteration
    \/ EventIteration
    \/ EndTrack
    \/ ResolveTempo
    \/ Annotate
    \/ WriteOutput

\* the script is one sequential run to completion: a step that can be taken
\* is taken
SpecLive == InitLive /\ [][NextLive]_vars /\ WF_vars(NextLive)

\* C12: every iteration of the loop of readTrack takes at least 2 from the
\* remaining length, also when the event is dropped, so the loop ends for
\* every buffer and every declared length; and from the loop over the tracks
\* the run always reaches the time annotation.
C12_TrackParsingTerminates ==
    /\ [][ (pc = "loop" /\ pc' = "loop") =>
              /\ LoopCondition(Context)
              /\ trackLength' <= trackLength - 2 ]_vars
    /\ (pc \in {"tracks", "loop"}) ~> (pc = "annotate")

\* the last iteration of the parse dropped its event and counted 2 bytes, in
\* a chunk whose declared length reaches beyond its events, and the run is
\* at the time annotation
C12_Witness ==
    /\ pc = "annotate"
    /\ last.kind = "event" /\ IsDataByte(last.header) /\ ~Truthy(last.rsBefore)
    /\ last.bytesRead = 2
    /\ trackLength <= 0
    /\ stored # <<>>

\* the loop of readTrack is over, lines 111-114 are to come
TrackParseEnds == pc = "loop" /\ ~LoopCondition(Context)

\* C13 as stated: when the parse of a track ends the remaining length is
\* exactly 0 and the cursor stands on the first byte behind the chunk.
C13_EndsOnChunkBoundary ==
    TrackParseEnds =>
        /\ trackLength = 0
        /\ byteIndex = last.dataStart + last.declared

\* C13, amended: when the parse of a track ends the remaining length is <= 0
\* (not a number when the length field lies behind the end of the input) and
\* the bytes consumed for the event data are the declared length less the
\* remaining length: the cursor stands behind the chunk by the overshoot, which
\* is less than the bytes of the last iteration, and on the first byte behind
\* the chunk exactly when the remaining length is 0.
C13_TrackParseEnd ==
    TrackParseEnds =>
        IF last.declared = NaN
        THEN trackLength = NaN /\ last.n = 0 /\ byteIndex = last.dataStart
        ELSE /\ trackLength <= 0
             /\ byteIndex = last.dataStart + last.declared - trackLength
             /\ last.n >= 1 => trackLength > - last.bytesRead
             /\ (byteIndex = last.dataStart + last.declared) <=> (trackLength = 0)

\* a sysex event whose length reaches 4 bytes beyond its chunk ended the track
\* with -4 remaining, the cursor inside the next chunk
C13_Witness ==
    /\ TrackParseEnds
    /\ last.kind = "sysex" /\ trackLength = -4
    /\ byteIndex = last.dataStart + last.declared + 4
    /\ byteIndex < Len(bytes)

\* C14 as stated: the buffer position never decreases and never exceeds the
\* length of the buffer (a read of more bytes than remain fails and leaves
\* the position where it was).
C14_BufferPositionBound ==
    FileLoaded =>
        /\ last.start <= byteIndex
        /\ byteIndex <= Len(bytes)

\* the iteration of that kind and status byte decoded a meta event, or a
\* sysex / system common byte 0xF0..0xF7
ClearingIteration(kind, header) ==
    kind = "meta" \/ (kind = "sysex" /\ header \in 240..247)

\* C15: after a meta event of any type and length, and after a status byte
\* 0xF0..0xF7, running status is empty, and a byte < 0x80 in status position
\* in the next iteration appends no event and leaves it empty.
C15_MetaAndSysexClearRunningStatus ==
    pc = "loop" =>
        /\ ClearingIteration(last.kind, last.header) => runningStatus = Null
        /\ (/\ ClearingIteration(last.prevKind, last.prevHeader)
            /\ last.kind = "event" /\ IsDataByte(last.header))
              => /\ last.rsBefore = Null
                 /\ Len(trackData) = last.lenBefore
                 /\ ret = 0
                 /\ runningStatus = Null

\* a note-on, then F7, then a data byte in status position: the track still
\* holds the one event
C15_Witness ==
    /\ pc = "loop" /\ last.n = 3
    /\ last.prevKind = "sysex" /\ last.prevHeader = 247
    /\ last.kind = "event" /\ IsDataByte(last.header)
    /\ Len(trackData) = 1 /\ trackData[1].type = "noteOn"
    /\ runningStatus = Null

\* C16 as stated: a status byte 0xF8..0xFF dispatched within a track leaves
\* running status as it was before that byte.
C16_RealTimeRangePreserves ==
    (pc = "loop" /\ last.header \in 248..255) => runningStatus = last.rsBefore

\* C16, amended: a status byte 0xF8..0xFE leaves running status as it was, so
\* a data-only channel event behind it is decoded with the status stored
\* before; 0xFF is a meta event and clears running status.
C16_RealTimePreservesRunningStatus ==
    pc = "loop" =>
        /\ last.header \in 248..254 =>
              /\ last.kind = "sysex"
              /\ runningStatus = last.rsBefore
              /\ Len(trackData) = last.lenBefore
        /\ (/\ last.prevHeader \in 248..254
            /\ last.kind = "event" /\ IsDataByte(last.header)
            /\ Truthy(last.rsBefore))
              => /\ runningStatus = last.rsBefore
                 /\ Len(trackData) = last.lenBefore + 1
                 /\ (last.rsBefore \div 16 = 9) =>
                        /\ Last(trackData).type = "noteOn"
                        /\ Last(trackData).note = last.header
        /\ last.header = 255 => (last.kind = "meta" /\ runningStatus = Null)

\* a note-on with status 0x91, then FE, then a data byte: the second note-on
\* is decoded with running status 0x91
C16_Witness ==
    /\ pc = "loop" /\ last.n = 3
    /\ last.prevKind = "sysex" /\ last.prevHeader = 254
    /\ last.kind = "event" /\ last.header = 62
    /\ runningStatus = 145
    /\ Len(trackData) = 2
    /\ trackData[2] = [type |-> "noteOn", time |-> 10, note |-> 62, velocity |-> 0]

\* C17: every iteration of the loop, whichever branch it dispatches to, takes
\* from the remaining length exactly what the cursor advanced by; so at every
\* head of the loop the cursor stands at the start of the event data + the
\* declared length - the remaining length.
C17_ByteAccountingMatchesCursor ==
    /\ [][ (pc = "loop" /\ pc' = "loop") =>
              trackLength - trackLength' = byteIndex' - byteIndex ]_vars
    /\ [](pc = "loop" =>
              /\ last.n >= 1 => last.bytesRead = byteIndex - last.start
              /\ last.declared # NaN =>
                    byteIndex = last.dataStart + last.declared - trackLength)

\* a track of a note-on, an end-of-track meta event and a sysex whose length
\* reaches beyond the chunk: after the three iterations the cursor stands 4
\* bytes beyond the chunk with -4 remaining
C17_Witness ==
    /\ pc = "loop" /\ last.n = 3
    /\ last.prevKind = "meta" /\ last.kind = "sysex"
    /\ Len(trackData) = 2
    /\ last.bytesRead = 8 /\ byteIndex = last.start + 8
    /\ trackLength = -4
    /\ byteIndex = last.dataStart + last.declared + 4

RECURSIVE Sum(_)
Sum(seq) == IF seq = <<>> THEN 0 ELSE Head(seq) + Sum(Tail(seq))

NonDecreasing(events) ==
    \A i \in 1..(Len(events) - 1) : events[i].time <= events[i + 1].time

\* C18: an event's tick is the sum of the delta times of the iterations of
\* its track up to and including its own, whatever those iterations decoded;
\* the ticks of an event list never decrease; the events decoded before stay
\* as they are; and the accumulator starts at 0 in every track.
C18_TicksAccumulatedAndOrdered ==
    /\ [][ (pc = "loop" /\ pc' = "loop") =>
              SubSeq(trackData', 1, Len(trackData)) = trackData ]_vars
    /\ [](pc = "loop" =>
              /\ last.kind = "begin" => (totalDeltaTime = 0 /\ trackData = <<>>)
              /\ totalDeltaTime = Sum(last.deltas)
              /\ \A i \in (last.lenBefore + 1)..Len(trackData) :
                    trackData[i].time = Sum(last.deltas)
              /\ NonDecreasing(trackData))
    /\ [](\A k \in DOMAIN outputDict : NonDecreasing(outputDict[k]))

\* track 0 dropped a byte behind a delta time of 5 and holds a note-on at tick
\* 5; the note-on of track 1 is at tick 0
C18_Witness ==
    /\ pc = "loop" /\ iTrack = 1 /\ last.n = 1
    /\ trackData = <<[type |-> "noteOn", time |-> 0, note |-> 60, velocity |-> 64]>>
    /\ trackNameDefault(0) \in DOMAIN outputDict
    /\ outputDict[trackNameDefault(0)] =
          <<[type |-> "noteOn", time |-> 5, note |-> 60, velocity |-> 64]>>

\* the keys the parsed tracks resolved to
StoredKeys == { stored[i].key : i \in DOMAIN stored }

\* the track parsed last among those that resolved to key k
LastStored(k) ==
    stored[CHOOSE i \in DOMAIN stored :
              /\ stored[i].key = k
              /\ \A j \in DOMAIN stored : j > i => stored[j].key # k]

\* C19 as stated: the output mapping holds at most one entry per track whose
\* magic matched; under every name a track resolved to it holds the event list
\* of the track parsed last under that name; and when the names are pairwise
\* distinct it holds as many entries as tracks were parsed.
C19_OutputEntriesUnderCollisions ==
    pc \in {"tracks", "loop", "annotate"} =>
        /\ Cardinality(DOMAIN outputDict) <= Len(stored)
        /\ \A k \in StoredKeys :
              /\ k \in DOMAIN outputDict
              /\ outputDict[k] = LastStored(k).events
        /\ Cardinality(StoredKeys) = Len(stored)
              => Cardinality(DOMAIN outputDict) = Len(stored)

----------------------------------------------------------------------------
(* readVariableLength alone (specification SpecVLQ): the buffer holds the   *)
(* canonical encoding of a value, or arbitrary bytes, from a start offset.  *)

MaxSmallValue == 200

MaxRawBytes == 5

\* the canonical variable-length encoding: 7 bits a byte, most significant
\* group first, the top bit set on every byte but the last
RECURSIVE EncodeHigh(_)
EncodeHigh(v) ==
    IF v < 128 THEN <<128 + v>> ELSE EncodeHigh(v \div 128) \o <<128 + (v % 128)>>

Encode(v) == IF v < 128 THEN <<v>> ELSE EncodeHigh(v \div 128) \o <<v % 128>>

VLQValues ==
    (0..MaxSmallValue)
    \cup {8192, 16383, 16384, 16385, 100000, 2097151, 2097152, 2097153,
          134217728, 268435454, 268435455}

VLQInputs ==
    { [kind |-> "canonical", value |-> v, start |-> Len(pre),
       bytes |-> pre \o Encode(v) \o post] :
         v \in VLQValues, pre \in {<<>>, <<255, 0>>}, post \in {<<>>, <<129, 0>>} }
    \cup
    { [kind |-> "raw", value |-> Null, start |-> 0, bytes |-> b] :
         b \in UNION { [1..n -> {0, 127, 129, 255}] : n \in 0..MaxRawBytes } }

InitVLQ ==
    /\ pc = "call"
    /\ \E in \in VLQInputs :
          /\ bytes = in.bytes
          /\ byteIndex = in.start
          /\ aux = in
    /\ argv = [argc |-> 4, bpm |-> NaN]
    /\ Globals

\* a call of readVariableLength (lines 44-68); ret is the array returned
CallReadVariableLength ==
    /\ pc = "call"
    /\ LET r == readVariableLength(bytes, byteIndex)
       IN /\ ret' = <<r.val, r.cnt>>
          /\ byteIndex' = r.idx
    /\ pc' = "returned"
    /\ UNCHANGED <<bytes, tempo, overrideTempo, division, outputDict,
                   runningStatus, tempTrackName, numTracks, iTrack, trackLength,
                   totalDeltaTime, trackData, msPerTick, written, last,
                   metaLog, stored, argv, aux>>

NextVLQ == CallReadVariableLength

SpecVLQ == InitVLQ /\ [][NextVLQ]_vars

\* the length of the canonical encoding of v
CanonicalLength(v) ==
    IF v < 128 THEN 1 ELSE IF v < 16384 THEN 2 ELSE IF v < 2097152 THEN 3 ELSE 4

\* C2: readVariableLength on the canonical encoding of a value of 1 to 4
\* bytes returns the value and the encoding's length and advances the cursor
\* by that length; it never consumes more than 4 bytes, and a continuation
\* bit on the 4th byte is ignored.
C2_VariableLengthRoundTrip ==
    pc = "returned" =>
        /\ ret[2] \in 1..4
        /\ byteIndex = aux.start + ret[2]
        /\ aux.kind = "canonical" =>
              /\ ret[1] = aux.value
              /\ ret[2] = CanonicalLength(aux.value)
        /\ (aux.kind = "raw" /\ Len(aux.bytes) >= 4
              /\ \A i \in 1..4 : aux.bytes[i] >= 128) =>
              /\ ret[2] = 4
              /\ ret[1] = (aux.bytes[1] % 128) * 2097152 + (aux.bytes[2] % 128) * 16384
                          + (aux.bytes[3] % 128) * 128 + (aux.bytes[4] % 128)

\* the largest 4-byte value is read back from FF FF FF 7F
C2_Witness ==
    /\ pc = "returned"
    /\ aux.kind = "canonical" /\ aux.value = 268435455
    /\ Slice(aux.bytes, aux.start, 4) = <<255, 255, 255, 127>>
    /\ ret = <<268435455, 4>>
    /\ byteIndex = aux.start + 4

----------------------------------------------------------------------------
(* readEvent alone on an explicit channel-voice status byte (SpecEvent)     *)

EventInputs ==
    { [status |-> st, first |-> d1, second |-> d2, tick |-> t, rs |-> rs,
       before |-> b] :
         st \in 128..239, d1 \in {0, 60, 127}, d2 \in {0, 64, 127}, t \in {0, 7},
         rs \in {Null, 176}, b \in {<<>>, <<[type |-> "trackEnd", time |-> 0]>>} }

InitEvent ==
    /\ pc = "call"
    /\ \E in \in EventInputs :
          /\ aux = in
          /\ bytes = <<in.first, in.second, 0>>
          /\ runningStatus = in.rs
          /\ totalDeltaTime = in.tick
          /\ trackData = in.before
    /\ byteIndex = 0
    /\ argv = [argc |-> 4, bpm |-> NaN]
    /\ tempo = Rat(500000, 1)
    /\ overrideTempo = Rat(0, 1)
    /\ division = 0
    /\ outputDict = <<>>
    /\ tempTrackName = <<>>
    /\ numTracks = 0
    /\ iTrack = 0
    /\ trackLength = 0
    /\ msPerTick = Rat(0, 0)
    /\ written = [done |-> FALSE, text |-> <<>>]
    /\ ret = Null
    /\ last = NoLast
    /\ metaLog = <<>>
    /\ stored = <<>>

\* a call of readEvent (lines 117-209) with the status byte drawn
CallReadEvent ==
    /\ pc = "call"
    /\ Becomes(readEvent(bytes, Context, aux.status))
    /\ pc' = "returned"
    /\ UNCHANGED <<bytes, overrideTempo, division, numTracks, iTrack, msPerTick,
                   written, argv, aux>>

NextEvent == CallReadEvent

SpecEvent == InitEvent /\ [][NextEvent]_vars

\* the number of data bytes of a status whose high nibble is hi
Arity(hi) == IF hi \in {12, 13} THEN 1 ELSE 2

\* the event the decode table of the specification gives
TableEvent(hi, tick, first, second) ==
    CASE hi = 8  -> [type |-> "noteOff", time |-> tick, note |-> first, velocity |-> second]
      [] hi = 9  -> [type |-> "noteOn", time |-> tick, note |-> first, velocity |-> second]
      [] hi = 10 -> [type |-> "polyAftertouch", time |-> tick, note |-> first,
                     pressure |-> second]
      [] hi = 11 -> [type |-> "CC", time |-> tick, CC |-> first, value |-> second]
      [] hi = 12 -> [type |-> "programChange", time |-> tick, program |-> first]
      [] hi = 13 -> [type |-> "aftertouch", time |-> tick, pressure |-> first]
      [] hi = 14 -> [type |-> "pitchwheel", time |-> tick,
                     pitchwheel |-> second * 128 + first]

\* C3: for an explicit status byte 0x80..0xEF readEvent appends exactly the
\* one event of the decode table at the current tick, reads 2 data bytes (1
\* for 0xC, 0xD) and returns that number.
C3_ChannelVoiceDecodeTable ==
    pc = "returned" =>
        LET hi == aux.status \div 16
        IN /\ trackData = Append(aux.before,
                                 TableEvent(hi, aux.tick, aux.first, aux.second))
           /\ ret = Arity(hi)
           /\ byteIndex = Arity(hi)

\* E0 00 40 decodes to the pitchwheel centre 8192
C3_Witness ==
    /\ pc = "returned"
    /\ aux.status = 224 /\ aux.first = 0 /\ aux.second = 64
    /\ Last(trackData) = [type |-> "pitchwheel", time |-> aux.tick, pitchwheel |-> 8192]
    /\ ret = 2

----------------------------------------------------------------------------
(* readTrack on a run of channel-voice events of one status, and on the     *)
(* same run with the status byte left out of all but the first (SpecRS)     *)

MaxRun == 3

RunStatuses == {128, 145, 162, 179, 196, 213, 239}

RunEvents ==
    { [delta |-> d, first |-> d1, second |-> d2] :
         d \in {0, 200}, d1 \in {0, 127}, d2 \in {0, 64} }

DataBytes(st, e) ==
    IF Arity(st \div 16) = 2 THEN <<e.first, e.second>> ELSE <<e.first>>

\* the event data of the run; with elide the status is written once
RECURSIVE RunBytes(_, _, _, _)
RunBytes(st, es, i, elide) ==
    IF i > Len(es) THEN <<>>
    ELSE Encode(es[i].delta)
         \o (IF elide /\ i > 1 THEN <<>> ELSE <<st>>)
         \o DataBytes(st, es[i])
         \o RunBytes(st, es, i + 1, elide)

TrackChunkOf(body) == trackChunk \o BigEndian(Len(body), 4) \o body

RunInputs ==
    { [status |-> st, n |-> Len(es), events |-> es,
       bytes |-> TrackChunkOf(RunBytes(st, es, 1, FALSE)),
       twin |-> TrackChunkOf(RunBytes(st, es, 1, TRUE))] :
         st \in RunStatuses,
         es \in UNION { [1..n -> RunEvents] : n \in 2..MaxRun } }

InitRS ==
    /\ pc = "call"
    /\ byteIndex = 0
    /\ argv = [argc |-> 4, bpm |-> NaN]
    /\ Globals
    /\ \E in \in RunInputs :
          /\ bytes = in.bytes
          /\ aux = [in |-> in,
                    ctx |-> [byteIndex |-> 0, runningStatus |-> Null,
                             tempTrackName |-> <<>>, tempo |-> Rat(500000, 1),
                             outputDict |-> <<>>, trackLength |-> 0,
                             totalDeltaTime |-> 0, trackData |-> <<>>,
                             ret |-> Null, last |-> NoLast, metaLog |-> <<>>,
                             stored |-> <<>>, iTrack |-> 0]]

RSFrame == UNCHANGED <<bytes, overrideTempo, division, numTracks, iTrack, msPerTick,
                       written, argv>>

\* readTrack(0) is called on both streams (lines 76-86)
RunHeader ==
    /\ pc = "call"
    /\ Becomes(readTrackHeader(bytes, Context))
    /\ aux' = [aux EXCEPT !.ctx = readTrackHeader(aux.in.twin, @)]
    /\ pc' = "loop"
    /\ RSFrame

\* one iteration of the loop of each stream whose remaining length is > 0
RunIteration ==
    /\ pc = "loop"
    /\ LoopCondition(Context) \/ LoopCondition(aux.ctx)
    /\ IF LoopCondition(Context)
       THEN Becomes(readTrackIteration(bytes, Context))
       ELSE Becomes(Context)
    /\ aux' = [aux EXCEPT !.ctx = IF LoopCondition(@)
                                  THEN readTrackIteration(aux.in.twin, @) ELSE @]
    /\ UNCHANGED pc
    /\ RSFrame

\* both loops are over: lines 111-114
RunStore ==
    /\ pc = "loop"
    /\ ~LoopCondition(Context) /\ ~LoopCondition(aux.ctx)
    /\ Becomes(readTrackStore(Context))
    /\ aux' = [aux EXCEPT !.ctx = readTrackStore(@)]
    /\ pc' = "returned"
    /\ RSFrame

NextRS == RunHeader \/ RunIteration \/ RunStore

SpecRS == InitRS /\ [][NextRS]_vars

\* C1: a run of N >= 2 channel-voice events of one status S decodes to the
\* same event list with the status byte written before every event and with
\* it written before the first only, and running status is S after each.
C1_RunningStatusEquivalence ==
    /\ (pc = "loop" /\ last.n >= 1) =>
          /\ aux.ctx.last.n = last.n
          /\ Len(trackData) = last.n
          /\ aux.ctx.trackData = trackData
          /\ runningStatus = aux.in.status
          /\ aux.ctx.runningStatus = aux.in.status
    /\ pc = "returned" =>
          /\ DOMAIN outputDict = {trackNameDefault(0)}
          /\ aux.ctx.outputDict = outputDict
          /\ Len(outputDict[trackNameDefault(0)]) = aux.in.n
          /\ \A i \in 1..aux.in.n :
                outputDict[trackNameDefault(0)][i] =
                    TableEvent(aux.in.status \div 16,
                               IF i = 1 THEN aux.in.events[1].delta
                               ELSE outputDict[trackNameDefault(0)][i - 1].time
                                    + aux.in.events[i].delta,
                               aux.in.events[i].first, aux.in.events[i].second)

\* three events decoded from a stream two status bytes shorter than its twin
C1_Witness ==
    /\ pc = "returned"
    /\ aux.in.n = 3
    /\ Len(aux.in.twin) = Len(aux.in.bytes) - 2
    /\ aux.ctx.byteIndex = Len(aux.in.twin)
    /\ byteIndex = Len(bytes)
    /\ Len(aux.ctx.outputDict[trackNameDefault(0)]) = 3
    /\ aux.ctx.outputDict = outputDict

====
